---- MODULE Spec2Model ----
(***************************************************************************)
(* Mask2CAD (models.py), its samplers and datasets (datasets.py) and the   *)
(* detection training loop (train_detection.py) as state machines.         *)
(*                                                                         *)
(* Every component has its own variables, its own Init and its own         *)
(* next-state relation; a specification runs one component and leaves the  *)
(* variables of the others at their idle values.                           *)
(*                                                                         *)
(* Numbers.  Tensors of floats are modelled exactly: quaternion components *)
(* are integers in units of 1/QScale, box coordinates and offsets are      *)
(* rationals <<numerator, denominator>>, similarities are integers.        *)
(* Floating-point rounding is outside the model.                           *)
(***************************************************************************)
EXTENDS Integers, Sequences, FiniteSets, TLC

VARIABLES
    \* ---- Mask2CAD rotation targets and inference composition
    object_rotation_quat,   \* self.object_rotation_quat: category -> anchors
    rotTarget,              \* last result of compute_rotation_location_targets (rotation part)
    rotPred,                \* last result of the evaluation branch (rotation part)
    \* ---- Mask2CAD center-offset targets and inference composition
    ctrTarget,              \* last result of compute_rotation_location_targets (center part)
    ctrPred,                \* last result of the evaluation branch (location part)
    \* ---- Mask2CAD.forward in evaluation mode: control flow and tensor shapes
    evPc,                   \* position in forward
    num_boxes,              \* number of detected boxes of every image (line 73)
    evShapes,               \* shapes of category_idx, bbox and the branch outputs
    evRaised,               \* the exception that ended forward, "" if none
    \* ---- Mask2CAD.forward in training mode: the combined loss
    lossCall,               \* last call: loss_weights, the four component losses, loss
    \* ---- Mask2CAD.shape_embedding_loss
    selCall,                \* last call: its arguments and what it computed
    \* ---- train_one_epoch (train_detection.py)
    trPc,                   \* position in train_one_epoch
    trBatches,              \* len(data_loader)
    trIter,                 \* batches taken from data_loader so far
    lr_scheduler,           \* "warmup" in epoch 0, "None" otherwise (lines 47-52)
    losses_reduced,         \* class of losses_reduced of the current iteration
    zero_grads,             \* calls of optimizer.zero_grad so far
    backwards,              \* calls of losses.backward so far
    optimizer_steps,        \* calls of optimizer.step so far
    scheduler_steps,        \* calls of lr_scheduler.step so far
    exit_status,            \* status of sys.exit, -1 while the process runs
    \* ---- ShapeRetrieval
    retrPc,                 \* "loop" in the constructor's loop, then "ctor_ended", "forward_ended"
    retrViews,              \* rendered views per item of rendered_views_dataset
    shape_embedding,        \* self.shape_embedding: a list of rows, then a tensor
    shape_indices,          \* self.shape_indices
    ctorRaised,             \* the exception the constructor ended with, "" if none
    detections,             \* forward's detections per image, and the exception it ended with
    \* ---- CacheInputOutput wrappers of the detector, read by evaluation forward passes
    cache,                  \* wrapper -> its fields args, kwargs, output (the call that wrote each)
    passPc,                 \* forward pass -> its position
    passRead,               \* forward pass -> what it read from the wrappers (lines 74-75)
    \* ---- gather_incomplete and the anchor lookup by category id
    gatherCall,             \* last call: its arguments and its result or exception
    \* ---- the samplers of datasets.py
    randSampler,            \* object -> fields of a RenderedViewsRandomSampler
    randEpoch,              \* object -> argument of its last set_epoch, -1 if none
    seqSampler,             \* fields of a RenderedViewsSequentialSampler
    uniqSampler,            \* fields of a UniqueShapeRenderedViewsSequentialSampler
    yielded,                \* last iteration of a sampler: the lists or the exception
    \* ---- Pix3d and its two COCO views
    pix3d,                  \* fields of a Pix3d built from a split: split, metadata, image_idx
    coco_dataset,           \* the dataset dict of the last as_coco_dataset
    annsLoaded,             \* last loadAnns: its ids and its result or exception
    \* ---- RandomHorizontalFlip of transforms.py
    hflip,                  \* self.p and the (image, target) pair last given or returned
    hflipLog                \* the pair first given, and whether each forward flipped

rotVars == <<object_rotation_quat, rotTarget, rotPred>>
ctrVars == <<ctrTarget, ctrPred>>
evVars == <<evPc, num_boxes, evShapes, evRaised>>
lossVars == <<lossCall>>
selVars == <<selCall>>
trVars == <<trPc, trBatches, trIter, lr_scheduler, losses_reduced, zero_grads, backwards,
            optimizer_steps, scheduler_steps, exit_status>>
retrVars == <<retrPc, retrViews, shape_embedding, shape_indices, ctorRaised, detections>>
cacheVars == <<cache, passPc, passRead>>
gatherVars == <<gatherCall>>
smpVars == <<randSampler, randEpoch, seqSampler, uniqSampler, yielded>>
boxVars == <<pix3d, coco_dataset, annsLoaded>>
flipVars == <<hflip, hflipLog>>
vars == <<rotVars, ctrVars, evVars, lossVars, selVars, trVars, retrVars,
          cacheVars, gatherVars, smpVars, boxVars, flipVars>>

\* the variables of all components but one
exceptRot == <<ctrVars, evVars, lossVars, selVars, trVars, retrVars, cacheVars, gatherVars, smpVars, boxVars, flipVars>>
exceptCtr == <<rotVars, evVars, lossVars, selVars, trVars, retrVars, cacheVars, gatherVars, smpVars, boxVars, flipVars>>
exceptEv == <<rotVars, ctrVars, lossVars, selVars, trVars, retrVars, cacheVars, gatherVars, smpVars, boxVars, flipVars>>
exceptLoss == <<rotVars, ctrVars, evVars, selVars, trVars, retrVars, cacheVars, gatherVars, smpVars, boxVars, flipVars>>
exceptSel == <<rotVars, ctrVars, evVars, lossVars, trVars, retrVars, cacheVars, gatherVars, smpVars, boxVars, flipVars>>
exceptTr == <<rotVars, ctrVars, evVars, lossVars, selVars, retrVars, cacheVars, gatherVars, smpVars, boxVars, flipVars>>
exceptRetr == <<rotVars, ctrVars, evVars, lossVars, selVars, trVars, cacheVars, gatherVars, smpVars, boxVars, flipVars>>
exceptCache == <<rotVars, ctrVars, evVars, lossVars, selVars, trVars, retrVars, gatherVars, smpVars, boxVars, flipVars>>
exceptGather == <<rotVars, ctrVars, evVars, lossVars, selVars, trVars, retrVars, cacheVars, smpVars, boxVars, flipVars>>
exceptSmp == <<rotVars, ctrVars, evVars, lossVars, selVars, trVars, retrVars, cacheVars, gatherVars, boxVars, flipVars>>
exceptBox == <<rotVars, ctrVars, evVars, lossVars, selVars, trVars, retrVars, cacheVars, gatherVars, smpVars, flipVars>>
exceptFlip == <<rotVars, ctrVars, evVars, lossVars, selVars, trVars, retrVars, cacheVars, gatherVars, smpVars, boxVars>>

\* Python's None, for a variable that otherwise holds a record
None == [none |-> TRUE]

(***************************************************************************)
(* Generic helpers                                                         *)
(***************************************************************************)
Abs(n) == IF n < 0 THEN -n ELSE n

Range(s) == {s[i] : i \in DOMAIN s}

RECURSIVE SumSeq(_)
SumSeq(s) == IF s = <<>> THEN 0 ELSE Head(s) + SumSeq(Tail(s))

\* torch.argmax / torch.argmin over a 1-d tensor: the position (1-based here)
\* of the first maximal / minimal value.
ArgMaxFirst(s) ==
    CHOOSE i \in DOMAIN s :
        /\ \A j \in DOMAIN s : s[j] <= s[i]
        /\ \A j \in DOMAIN s : j < i => s[j] < s[i]

ArgMinFirst(s) ==
    CHOOSE i \in DOMAIN s :
        /\ \A j \in DOMAIN s : s[j] >= s[i]
        /\ \A j \in DOMAIN s : j < i => s[j] > s[i]

(***************************************************************************)
(* Floats as exact rationals <<n, d>> in lowest terms with d > 0; the      *)
(* IEEE special values are <<1, 0>> (+inf), <<-1, 0>> (-inf), <<0, 0>> (nan). *)
(***************************************************************************)
RECURSIVE GCD(_, _)
GCD(a, b) == IF b = 0 THEN a ELSE GCD(b, a % b)

Sign(n) == IF n > 0 THEN 1 ELSE IF n < 0 THEN -1 ELSE 0

RNorm(n, d) ==
    IF d = 0 THEN <<Sign(n), 0>>
    ELSE LET g == GCD(Abs(n), Abs(d))
         IN <<(Sign(d) * n) \div g, Abs(d) \div g>>

RInt(n) == <<n, 1>>
RNaN == <<0, 0>>
RPosInf == <<1, 0>>
RNegInf == <<-1, 0>>
RIsFinite(a) == a[2] # 0

RMul(a, b) == RNorm(a[1] * b[1], a[2] * b[2])

RAdd(a, b) ==
    IF a[2] = 0 /\ b[2] = 0
    THEN (IF a = b THEN a ELSE RNaN)
    ELSE RNorm(a[1] * b[2] + b[1] * a[2], a[2] * b[2])

RNegate(a) == <<-a[1], a[2]>>
RSub(a, b) == RAdd(a, RNegate(b))

\* 1 / a: 1 / 0 is +inf, 1 / inf is 0
RInv(a) == IF a = <<0, 1>> THEN RPosInf ELSE RNorm(a[2], a[1])

RDiv(a, b) == RMul(a, RInv(b))

(***************************************************************************)
(* Quaternion algebra (module quat, imported by models.py).  Quaternions   *)
(* are <<x, y, z, w>>, scalar last, components in units of 1/QScale.       *)
(***************************************************************************)
\* reset_parameters(quat_fill = 0.95): 0.95 = QuatFillNum / QuatFillDen
QuatFillNum == 19
QuatFillDen == 20
QScale == 2 * QuatFillDen

QX(q) == q[1]
QY(q) == q[2]
QZ(q) == q[3]
QW(q) == q[4]

QNeg(q) == <<-q[1], -q[2], -q[3], -q[4]>>

QDot(a, b) == a[1]*b[1] + a[2]*b[2] + a[3]*b[3] + a[4]*b[4]

\* squared norm, in units of 1/QScale^2: a unit quaternion has QScale*QScale
QNormSq(q) == QDot(q, q)

QIsUnit(q) == QNormSq(q) = QScale * QScale

\* Hamilton product a * b
quatprod(a, b) ==
    << (QW(a)*QX(b) + QX(a)*QW(b) + QY(a)*QZ(b) - QZ(a)*QY(b)) \div QScale,
       (QW(a)*QY(b) - QX(a)*QZ(b) + QY(a)*QW(b) + QZ(a)*QX(b)) \div QScale,
       (QW(a)*QZ(b) + QX(a)*QY(b) - QY(a)*QX(b) + QZ(a)*QW(b)) \div QScale,
       (QW(a)*QW(b) - QX(a)*QX(b) - QY(a)*QY(b) - QZ(a)*QZ(b)) \div QScale >>

\* inverse: conjugate over squared norm (the conjugate for a unit quaternion)
quatinv(a) ==
    LET n == QNormSq(a)
        s == QScale * QScale
    IN << (-QX(a) * s) \div n, (-QY(a) * s) \div n, (-QZ(a) * s) \div n, (QW(a) * s) \div n >>

\* relative(a, b): the d with a * d = b, that is inverse(a) * b
quatprodinv(a, b) == quatprod(quatinv(a), b)

\* double-cover-aware distance of a to every row of B: 1 - |<a, b>|
quatcdist(a, B) == [k \in DOMAIN B |-> QScale * QScale - Abs(QDot(a, B[k]))]

\* The 24 unit quaternions with components in {0, +-1/2, +-1} (Hurwitz units):
\* closed under product, not commutative.
H == QScale \div 2
Units ==
    {q \in [1..4 -> {-QScale, 0, QScale}] : QIsUnit(q)} \cup [1..4 -> {-H, H}]

QIdentity == <<0, 0, 0, QScale>>

(***************************************************************************)
(* Mask2CAD: rotation targets (compute_rotation_location_targets) and the  *)
(* rotation composed by the evaluation branch of forward.                  *)
(***************************************************************************)
NumCategories == 2          \* num_categories of the model instance
NumClusters == 2            \* num_rotation_clusters of the model instance

Categories == 0 .. NumCategories - 1
Clusters == 1 .. NumClusters

\* Anchors are drawn from this pool: it holds a quaternion and its negation,
\* pairs that commute and pairs that do not.
AnchorPool ==
    << QIdentity, QNeg(QIdentity), <<0, 0, QScale, 0>>, <<QScale, 0, 0, 0>>,
       <<H, H, H, H>>, <<-H, H, -H, H>> >>

\* The anchor lists of one category: every window of NumClusters consecutive
\* entries of AnchorPool, read cyclically.
AnchorLists ==
    { [k \in Clusters |-> AnchorPool[((s + k - 2) % Len(AnchorPool)) + 1]] :
        s \in 1 .. Len(AnchorPool) }

\* the refinement branch's output at initialisation: bias (0, 0, 0, quat_fill)
QuatFillDelta == <<0, 0, 0, 2 * QuatFillNum>>

\* predicted deltas the refinement branch may output (not unit-normalised)
Deltas == { QIdentity, QuatFillDelta, <<H, H, H, H>>, <<4, 0, 0, 2 * QuatFillNum>>, <<0, 0, 0, 0>> }

\* logits of the classification branch for one category
BinLogits == [Clusters -> {0, 1}]

\* gather_incomplete(tensor, I) for one detection: the slice at index I
\* (I is 0-based in the code, sequences are 1-based here)
gather_incomplete(tensor, I) == tensor[I + 1]

\* lines 114-115: anchors of the category, argmin of the distance to them
ObjectRotationBinsArgmax(anchor_quat, rotation) ==
    ArgMaxFirst(quatcdist(rotation, anchor_quat)) - 1

ObjectRotationBins(anchor_quat, rotation) ==
    ArgMinFirst(quatcdist(rotation, anchor_quat)) - 1

\* line 120: the delta target
TargetRotationDelta(anchor, rotation) == quatprodinv(anchor, rotation)

\* line 102: the rotation composed at inference, anchor on the left
EvalRotationSwapped(anchor, delta) == quatprod(delta, anchor)

EvalRotation(anchor, delta) == quatprod(anchor, delta)

IdleRot ==
    /\ object_rotation_quat = [c \in Categories |-> <<>>]
    /\ rotTarget = None
    /\ rotPred = None

IdleCtr ==
    /\ ctrTarget = None
    /\ ctrPred = None

NoShapes == [category_idx |-> <<>>, bbox |-> <<>>, branch |-> <<>>]

IdleEv ==
    /\ evPc = "start"
    /\ num_boxes = <<>>
    /\ evShapes = NoShapes
    /\ evRaised = ""

IdleLoss == lossCall = None

IdleSel == selCall = None

IdleTr ==
    /\ trPc = "idle"
    /\ trBatches = 0
    /\ trIter = 0
    /\ lr_scheduler = "None"
    /\ losses_reduced = "unset"
    /\ zero_grads = 0
    /\ backwards = 0
    /\ optimizer_steps = 0
    /\ scheduler_steps = 0
    /\ exit_status = -1

IdleRetr ==
    /\ retrPc = "idle"
    /\ retrViews = 0
    /\ shape_embedding = <<>>
    /\ shape_indices = <<>>
    /\ ctorRaised = ""
    /\ detections = <<>>

IdleCache ==
    /\ cache = <<>>
    /\ passPc = <<>>
    /\ passRead = <<>>

IdleGather == gatherCall = None

IdleSmp ==
    /\ randSampler = <<>>
    /\ randEpoch = <<>>
    /\ seqSampler = None
    /\ uniqSampler = None
    /\ yielded = None

IdleBox ==
    /\ pix3d = None
    /\ coco_dataset = None
    /\ annsLoaded = None

IdleFlip ==
    /\ hflip = None
    /\ hflipLog = None

\* every component idle
AllIdle ==
    /\ IdleRot /\ IdleCtr /\ IdleEv /\ IdleLoss /\ IdleSel /\ IdleTr /\ IdleRetr
    /\ IdleCache /\ IdleGather /\ IdleSmp /\ IdleBox /\ IdleFlip

InitRot ==
    /\ IdleCtr /\ IdleEv /\ IdleLoss /\ IdleSel /\ IdleTr /\ IdleRetr
    /\ IdleCache /\ IdleGather /\ IdleSmp /\ IdleBox /\ IdleFlip
    /\ object_rotation_quat \in [Categories -> AnchorLists]
    /\ rotTarget = None
    /\ rotPred = None

\* compute_rotation_location_targets, rotation part, for one detection of
\* category category_idx with true rotation rotation (a behaviour follows
\* one detection: its targets, then its evaluation)
ComputeRotationTargets(category_idx, rotation) ==
    rotTarget = None /\
    LET anchor_quat == object_rotation_quat[category_idx]
        bins == ObjectRotationBins(anchor_quat, rotation)
        anchor == gather_incomplete(anchor_quat, bins)
    IN /\ rotTarget' = [ category_idx |-> category_idx,
                         rotation |-> rotation,
                         bins |-> bins,
                         anchor |-> anchor,
                         delta |-> TargetRotationDelta(anchor, rotation) ]
       /\ rotPred' = None
       /\ UNCHANGED <<object_rotation_quat, exceptRot>>

\* forward, evaluation branch, lines 101-102, for the same detection: the
\* gathered logits and delta of its category give the output rotation
EvalComposeRotation(logits, delta) ==
    /\ rotPred = None
    /\ LET bins == ArgMaxFirst(logits) - 1
           anchor == gather_incomplete(object_rotation_quat[rotTarget.category_idx], bins)
       IN rotPred' = [ bins |-> bins,
                       anchor |-> anchor,
                       delta |-> delta,
                       rotation |-> EvalRotation(anchor, delta) ]
    /\ UNCHANGED <<object_rotation_quat, rotTarget, exceptRot>>

NextRot ==
    \/ rotTarget = None /\ \E c \in Categories, t \in Units : ComputeRotationTargets(c, t)
    \/ rotTarget # None /\ \E l \in BinLogits, d \in Deltas \cup {rotTarget.delta} : EvalComposeRotation(l, d)

SpecRot == InitRot /\ [][NextRot]_vars

QAdd(a, b) == <<a[1] + b[1], a[2] + b[2], a[3] + b[3], a[4] + b[4]>>

\* the smaller of the two squared chordal distances of q to a and to -a
DoubleCoverDistSq(q, a) ==
    LET p == QNormSq(QAdd(q, QNeg(a)))
        m == QNormSq(QAdd(q, a))
    IN IF p <= m THEN p ELSE m

C4_EvalRotationIsUnit ==
    rotPred # None => QIsUnit(rotPred.rotation)

\* C10: the target bin is the index of an anchor of the detection's category
\* at the smallest double-cover-aware distance from the true rotation, and
\* the true rotation q and -q get the same bin.
C10_BinNearestAndSignInvariant ==
    rotTarget # None =>
        LET anchor_quat == object_rotation_quat[rotTarget.category_idx]
            q == rotTarget.rotation
        IN /\ rotTarget.bins \in 0 .. NumClusters - 1
           /\ \A k \in Clusters :
                 DoubleCoverDistSq(q, anchor_quat[rotTarget.bins + 1])
                    <= DoubleCoverDistSq(q, anchor_quat[k])
           /\ ObjectRotationBins(anchor_quat, QNeg(q)) = rotTarget.bins

\* a target whose nearest anchor is not the first one and is nearest only
\* through its negation
C10_Witness ==
    /\ rotTarget # None
    /\ rotTarget.bins > 0
    /\ QDot(rotTarget.rotation, rotTarget.anchor) < 0
    /\ \E k \in Clusters :
          DoubleCoverDistSq(rotTarget.rotation, object_rotation_quat[rotTarget.category_idx][k])
             > DoubleCoverDistSq(rotTarget.rotation, rotTarget.anchor)

(***************************************************************************)
(* Mask2CAD: center-offset targets and the location composed by the        *)
(* evaluation branch of forward.                                           *)
(***************************************************************************)
MaxCoord == 2               \* box corners and true locations lie in 0 .. MaxCoord
MaxDepth == 2               \* depths (z) lie in 1 .. MaxDepth

Coords == 0 .. MaxCoord

\* boxes <<x1, y1, x2, y2>> with x1 <= x2 and y1 <= y2 (Pix3d.__init__ asserts it)
Boxes == {b \in [1..4 -> Coords] : b[1] <= b[3] /\ b[2] <= b[4]}

\* true object locations <<X, Y, Z>>
Locations == {<<x, y, z>> : x \in Coords, y \in Coords, z \in 1 .. MaxDepth}

\* offsets the center-regression branch may output
CenterDeltas == {<<RInt(0), RInt(0)>>, <<RNorm(1, 2), RNorm(-1, 4)>>}

\* xyxy_to_cxcywh: <<center_x, center_y, width, height>>
xyxy_to_cxcywh(bbox) ==
    LET width == RSub(RInt(bbox[3]), RInt(bbox[1]))
        height == RSub(RInt(bbox[4]), RInt(bbox[2]))
    IN << RAdd(RInt(bbox[1]), RDiv(width, RInt(2))),
          RAdd(RInt(bbox[2]), RDiv(height, RInt(2))),
          width, height >>

\* line 123 with the x offset divided by the height
TargetCenterDeltaByHeight(bbox, object_location) ==
    LET c == xyxy_to_cxcywh(bbox)
    IN << RDiv(RSub(RInt(object_location[1]), c[1]), c[4]),
          RDiv(RSub(RInt(object_location[2]), c[2]), c[4]) >>

\* lines 122-123: the center-offset target
TargetCenterDelta(bbox, object_location) ==
    LET c == xyxy_to_cxcywh(bbox)
    IN << RDiv(RSub(RInt(object_location[1]), c[1]), c[3]),
          RDiv(RSub(RInt(object_location[2]), c[2]), c[4]) >>

\* lines 103-104: x and y of the output location
EvalLocationXY(bbox, center_delta) ==
    LET c == xyxy_to_cxcywh(bbox)
    IN << RAdd(c[1], RMul(center_delta[1], c[3])),
          RAdd(c[2], RMul(center_delta[2], c[4])) >>

InitCtr == AllIdle

\* compute_rotation_location_targets, center part, for one detection (a
\* behaviour follows one detection: its targets, then its evaluation)
ComputeCenterTargets(bbox, object_location) ==
    /\ ctrTarget = None
    /\ ctrTarget' = [ bbox |-> bbox,
                      object_location |-> object_location,
                      center_delta |-> TargetCenterDelta(bbox, object_location) ]
    /\ ctrPred' = None
    /\ UNCHANGED exceptCtr

\* forward, evaluation branch, lines 103-104, for the same detection, called
\* with the parameter object_location given (line 64: it defaults to None)
EvalComposeLocation(center_delta, object_location) ==
    /\ ctrTarget # None
    /\ ctrPred = None
    /\ ctrPred' =
          IF object_location = <<>>
          THEN \* object_location[..., 2] on None
               [ center_delta |-> center_delta, object_location |-> object_location,
                 raised |-> "TypeError", location |-> <<>> ]
          ELSE [ center_delta |-> center_delta, object_location |-> object_location,
                 raised |-> "",
                 location |-> EvalLocationXY(ctrTarget.bbox, center_delta)
                                \o <<RInt(object_location[3])>> ]
    /\ UNCHANGED <<ctrTarget, exceptCtr>>

NextCtr ==
    \/ ctrTarget = None /\ \E b \in Boxes, l \in Locations : ComputeCenterTargets(b, l)
    \/ ctrTarget # None /\ ctrPred = None /\
          \E d \in CenterDeltas \cup {ctrTarget.center_delta},
             l \in {<<>>, ctrTarget.object_location} : EvalComposeLocation(d, l)

SpecCtr == InitCtr /\ [][NextCtr]_vars

\* C5: for a box with x1 < x2 and y1 < y2, the target offset of a true
\* location (X, Y), fed to the inference formula, returns (X, Y); the box is
\* read as cx = x1 + w/2, cy = y1 + h/2, w = x2 - x1, h = y2 - y1.
C5_CenterRoundTrip ==
    ( /\ ctrPred # None
      /\ ctrPred.raised = ""
      /\ ctrPred.center_delta = ctrTarget.center_delta
      /\ ctrTarget.bbox[1] < ctrTarget.bbox[3]
      /\ ctrTarget.bbox[2] < ctrTarget.bbox[4] )
    => LET b == ctrTarget.bbox
       IN /\ ctrPred.location[1] = RInt(ctrTarget.object_location[1])
          /\ ctrPred.location[2] = RInt(ctrTarget.object_location[2])
          /\ xyxy_to_cxcywh(b) = << RNorm(b[1] + b[3], 2), RNorm(b[2] + b[4], 2),
                                    RInt(b[3] - b[1]), RInt(b[4] - b[2]) >>

\* the round trip happened for a box of odd width whose center is not the
\* true location
C5_Witness ==
    /\ ctrPred # None
    /\ ctrPred.raised = ""
    /\ ctrPred.center_delta = ctrTarget.center_delta
    /\ ctrTarget.bbox[3] - ctrTarget.bbox[1] = 1
    /\ ctrTarget.bbox[4] - ctrTarget.bbox[2] = 2
    /\ ctrTarget.center_delta[1] # RInt(0)
    /\ ctrTarget.center_delta[2] # RInt(0)

\* C6: the evaluation branch produces an output location for every
\* detection, also when the caller supplies no depth, and the z of the
\* output is the depth the caller supplied.
C6_EvalLocationProduced ==
    ctrPred # None =>
        /\ ctrPred.raised = ""
        /\ Len(ctrPred.location) = 3
        /\ (ctrPred.object_location # <<>> =>
               ctrPred.location[3] = RInt(ctrPred.object_location[3]))

(***************************************************************************)
(* Mask2CAD.forward in evaluation mode (self.training false): the shapes   *)
(* of the tensors it builds and the operations that check them.            *)
(***************************************************************************)
MaxImages == 3              \* images per batch: 1 .. MaxImages
MaxDetections == 4          \* detected boxes per image: 0 .. MaxDetections

\* torch.Tensor.unflatten(0, sizes) on a tensor whose dimension 0 has size n
\* succeeds only when the sizes multiply up to n
UnflattenOk(n, sizes) == sizes[1] * sizes[2] = n

\* gather_incomplete(tensor, I), line 161, on shapes: the index passed to
\* gather has shape I.shape + (1,) + tensor.shape[I.ndim + 1:], and gather
\* along dimension I.ndim requires index.size(d) <= tensor.size(d) for every
\* other dimension d
GatherIndexShape(tensorShape, IShape) ==
    IShape \o <<1>> \o SubSeq(tensorShape, Len(IShape) + 2, Len(tensorShape))

GatherIncompleteOk(tensorShape, IShape) ==
    LET idx == GatherIndexShape(tensorShape, IShape)
    IN /\ Len(idx) = Len(tensorShape)
       /\ \A d \in 1 .. Len(idx) : d # Len(IShape) + 1 => idx[d] <= tensorShape[d]

InitEv == AllIdle

\* lines 72-73: the detector returns one dict per image; nb[i] boxes for image i
EvalDetect(nb) ==
    /\ evPc = "start"
    /\ num_boxes' = nb
    /\ evPc' = "detected"
    /\ UNCHANGED <<evShapes, evRaised, exceptEv>>

\* lines 74-79: the boxes and labels of all images are concatenated
EvalAggregate ==
    /\ evPc = "detected"
    /\ evShapes' = [evShapes EXCEPT !.category_idx = <<SumSeq(num_boxes)>>,
                                     !.bbox = <<SumSeq(num_boxes), 4>>]
    /\ evPc' = "aggregated"
    /\ UNCHANGED <<num_boxes, evRaised, exceptEv>>

\* lines 81-85: Q = bbox.shape[1]; every branch output, one row per box, is
\* unflattened to (B, Q, ...) and then to (B, Q, num_categories, ...)
EvalBranches ==
    /\ evPc = "aggregated"
    /\ LET B == Len(num_boxes)
           Q == evShapes.bbox[2]
       IN IF UnflattenOk(evShapes.bbox[1], <<B, Q>>)
          THEN /\ evShapes' = [evShapes EXCEPT !.branch = <<B, Q, NumCategories, NumClusters>>]
               /\ evPc' = "branched"
               /\ UNCHANGED evRaised
          ELSE /\ evRaised' = "RuntimeError: unflatten"
               /\ evPc' = "raised"
               /\ UNCHANGED evShapes
    /\ UNCHANGED <<num_boxes, exceptEv>>

\* line 86: gather_incomplete(t, category_idx) on the branch outputs
EvalGather ==
    /\ evPc = "branched"
    /\ IF GatherIncompleteOk(evShapes.branch, evShapes.category_idx)
       THEN /\ evPc' = "gathered"
            /\ UNCHANGED evRaised
       ELSE /\ evRaised' = "RuntimeError: gather"
            /\ evPc' = "raised"
    /\ UNCHANGED <<num_boxes, evShapes, exceptEv>>

NextEv ==
    \/ evPc = "start" /\ \E B \in 1 .. MaxImages : \E nb \in [1 .. B -> 0 .. MaxDetections] : EvalDetect(nb)
    \/ EvalAggregate
    \/ EvalBranches
    \/ EvalGather

SpecEv == InitEv /\ [][NextEv]_vars

\* C3: in evaluation mode forward completes for every batch and every
\* number of detections per image (zero and unequal counts included), and
\* returns per image as many outputs as the image has boxes.
C3_EvalForwardCompletes ==
    /\ evPc # "raised"
    /\ evPc = "gathered" => evShapes.branch[1] * evShapes.branch[2] = SumSeq(num_boxes)

(***************************************************************************)
(* Mask2CAD.forward in training mode: the combined loss of line 96.        *)
(* Weights and component losses are integers (weights in units of 1/4:     *)
(* the defaults 0.5, 0.25, 5.0 are 2, 1, 20).                              *)
(***************************************************************************)
MaxWeight == 2              \* every weight of loss_weights lies in 1 .. MaxWeight
MaxPartLoss == 2            \* every component loss lies in 0 .. MaxPartLoss

\* the keys forward reads from loss_weights (line 64, line 96)
LossWeightKeys == {"shape_embedding", "pose_classification", "pose_regression"}
LossWeightDicts == [LossWeightKeys -> 1 .. MaxWeight]

\* the four component losses of lines 93-94
PartLosses ==
    [ {"shape_embedding_loss", "pose_classification_loss",
       "pose_regression_loss", "center_regression_loss"} -> 0 .. MaxPartLoss ]

\* line 96 with the center loss weighted by the classification weight
TrainLossWrongKey(loss_weights, parts) ==
      loss_weights["shape_embedding"] * parts["shape_embedding_loss"]
    + loss_weights["pose_classification"] * parts["pose_classification_loss"]
    + loss_weights["pose_regression"] * parts["pose_regression_loss"]
    + loss_weights["pose_classification"] * parts["center_regression_loss"]

\* line 96
TrainLoss(loss_weights, parts) ==
      loss_weights["shape_embedding"] * parts["shape_embedding_loss"]
    + loss_weights["pose_classification"] * parts["pose_classification_loss"]
    + loss_weights["pose_regression"] * parts["pose_regression_loss"]
    + loss_weights["pose_regression"] * parts["center_regression_loss"]

InitLoss == AllIdle

\* forward in training mode, lines 92-98, called with loss_weights; parts
\* are the component losses of this batch (a behaviour follows one call)
TrainForward(loss_weights, parts) ==
    /\ lossCall = None
    /\ lossCall' = [ loss_weights |-> loss_weights,
                     parts |-> parts,
                     loss |-> TrainLoss(loss_weights, parts) ]
    /\ UNCHANGED exceptLoss

NextLoss ==
    lossCall = None /\ \E w \in LossWeightDicts, p \in PartLosses : TrainForward(w, p)

SpecLoss == InitLoss /\ [][NextLoss]_vars

\* the loss with one component loss 1 and the others 0: the weight that
\* forward gives to that component under loss_weights
WeightOf(loss_weights, part) ==
    TrainLoss(loss_weights, [q \in DOMAIN lossCall.parts |-> IF q = part THEN 1 ELSE 0])

\* C7 as claimed: every component has a weight of its own, so some
\* loss_weights changes the weight of the center-regression loss and leaves
\* the weight of the rotation-refinement loss as it is.
C7_CenterWeightIndependent ==
    lossCall # None =>
        \E w \in LossWeightDicts :
            /\ WeightOf(w, "center_regression_loss")
                 # WeightOf(lossCall.loss_weights, "center_regression_loss")
            /\ WeightOf(w, "pose_regression_loss")
                 = WeightOf(lossCall.loss_weights, "pose_regression_loss")

\* C7 as amended: the loss is the weighted sum in which the shape-embedding
\* and classification losses have their own weights and the
\* rotation-refinement and center-regression losses share the one weight
\* loss_weights['pose_regression'].
C7_LossSharesRegressionWeight ==
    lossCall # None =>
        LET w == lossCall.loss_weights
            l == lossCall.parts
        IN lossCall.loss =
               w["shape_embedding"] * l["shape_embedding_loss"]
             + w["pose_classification"] * l["pose_classification_loss"]
             + w["pose_regression"] * (l["pose_regression_loss"] + l["center_regression_loss"])

\* a call whose weights all differ where they can and whose center loss is
\* not zero
C7_Witness ==
    /\ lossCall # None
    /\ lossCall.loss_weights["pose_regression"] # lossCall.loss_weights["pose_classification"]
    /\ lossCall.parts["center_regression_loss"] > 0
    /\ lossCall.parts["pose_regression_loss"] # lossCall.parts["center_regression_loss"]

(***************************************************************************)
(* Mask2CAD.shape_embedding_loss.  The B*Q detections are rows 1 .. n, the *)
(* B*Q*V rendered views are columns 1 .. n*V; the views of detection i are *)
(* columns (i-1)*V + 1 .. i*V.  Embeddings are integer vectors with one    *)
(* non-zero component (or none), which F.normalize maps exactly.  The      *)
(* logarithm is kept as a class: "zero" (log 1), "finite", "inf", "-inf",  *)
(* "nan".                                                                  *)
(***************************************************************************)
MaxDets == 2                \* B*Q lies in 1 .. MaxDets
MaxViews == 2               \* V lies in 1 .. MaxViews
MaxP == 2                   \* P lies in 1 .. MaxP
MaxN == 2                   \* N lies in 1 .. MaxN

\* shape_embedding_loss(C = 1.5, tau = 0.15): C = CNum / CDen, tau = TauNum / TauDen
CNum == 3
CDen == 2
TauNum == 3
TauDen == 20

\* embeddings of image regions and of rendered views
Embeddings == {<<2, 0>>, <<0, 1>>, <<-1, 0>>}

\* ground truth of a detection: <<shape_idx, category_idx>>; a shape belongs
\* to one category
ShapeCats == {<<0, 0>>, <<1, 0>>, <<2, 1>>}

\* F.normalize(v, dim = -1) for a vector with at most one non-zero component
normalize(v) == <<Sign(v[1]), Sign(v[2])>>

\* the detection that owns column j
ViewOwner(j, V) == ((j - 1) \div V) + 1

\* a function on 1 .. n as a sequence with its elements evaluated
AsSeq(f) == f \o <<>>

\* line 141: D = normalize(img) @ normalize(views).t() / tau
SimilarityMatrix(img, views) ==
    AsSeq([i \in DOMAIN img |->
        AsSeq([j \in DOMAIN views |->
            LET a == normalize(img[i])
                b == normalize(views[j])
            IN RDiv(RInt(a[1] * b[1] + a[2] * b[2]), RNorm(TauNum, TauDen))])])

\* order of floats that are not nan
RLeq(a, b) ==
    IF a = RNegInf \/ b = RPosInf THEN TRUE
    ELSE IF a = RPosInf \/ b = RNegInf THEN FALSE
    ELSE a[1] * b[2] <= b[1] * a[2]

RemoveAt(s, i) == SubSeq(s, 1, i - 1) \o SubSeq(s, i + 1, Len(s))

\* torch.topk(k, largest = False).values: the k smallest values, ascending
RECURSIVE TopKSmallest(_, _)
TopKSmallest(s, k) ==
    IF k = 0 THEN <<>>
    ELSE LET i == CHOOSE i \in DOMAIN s : \A j \in DOMAIN s : RLeq(s[i], s[j])
         IN <<s[i]>> \o TopKSmallest(RemoveAt(s, i), k - 1)

\* torch.topk(k, largest = True).values: the k largest values, descending
RECURSIVE TopKLargest(_, _)
TopKLargest(s, k) ==
    IF k = 0 THEN <<>>
    ELSE LET i == CHOOSE i \in DOMAIN s : \A j \in DOMAIN s : RLeq(s[j], s[i])
         IN <<s[i]>> \o TopKLargest(RemoveAt(s, i), k - 1)

RECURSIVE RSum(_)
RSum(s) == IF s = <<>> THEN RInt(0) ELSE RAdd(Head(s), RSum(Tail(s)))

\* the class of log(r)
LogClass(r) ==
    IF r = RNaN \/ r = RNegInf \/ r[1] < 0 THEN "nan"
    ELSE IF r = RPosInf THEN "inf"
    ELSE IF r[1] = 0 THEN "-inf"
    ELSE IF r = RInt(1) THEN "zero"
    ELSE "finite"

ClassNeg(c) == IF c = "inf" THEN "-inf" ELSE IF c = "-inf" THEN "inf" ELSE c

ClassAdd(a, b) ==
    IF a = "nan" \/ b = "nan" THEN "nan"
    ELSE IF {a, b} = {"inf", "-inf"} THEN "nan"
    ELSE IF "inf" \in {a, b} THEN "inf"
    ELSE IF "-inf" \in {a, b} THEN "-inf"
    ELSE IF a = "zero" THEN b
    ELSE IF b = "zero" THEN a
    ELSE "finite"

RECURSIVE ClassSum(_)
ClassSum(s) == IF s = <<>> THEN "zero" ELSE ClassAdd(Head(s), ClassSum(Tail(s)))

\* lines 143-144: same_shape[i][j], same_category[i][j]
SameShape(gt, V, i, j) == gt[i][1] = gt[ViewOwner(j, V)][1]
SameCategory(gt, V, i, j) == gt[i][2] = gt[ViewOwner(j, V)][2]

\* line 146 without the mask: the P smallest of the whole row
HardestPositivesUnmasked(D, gt, V, P, i) == TopKSmallest(D[i], P)

\* line 146: row i of Dpos
HardestPositives(D, gt, V, P, i) ==
    TopKSmallest(AsSeq([j \in DOMAIN D[i] |-> IF SameShape(gt, V, i, j) THEN D[i][j] ELSE RPosInf]), P)

\* line 147 with the views of detection i's own shape masked out as well
HardestNegativesOtherShapes(D, gt, V, N, i) ==
    TopKLargest(AsSeq([j \in DOMAIN D[i] |->
        IF SameCategory(gt, V, i, j) /\ ~SameShape(gt, V, i, j) THEN D[i][j] ELSE RNegInf]), N)

\* line 147: row i of Dneg
HardestNegatives(D, gt, V, N, i) ==
    TopKLargest(AsSeq([j \in DOMAIN D[i] |-> IF SameCategory(gt, V, i, j) THEN D[i][j] ELSE RNegInf]), N)

\* line 149 for row i: the class of -(log(Dpos / (Dpos + C * sum(Dneg)))).sum()
RowLossClass(Dpos, Dneg) ==
    LET S == RMul(RNorm(CNum, CDen), RSum(Dneg))
    IN ClassNeg(ClassSum([p \in DOMAIN Dpos |->
                            LogClass(RDiv(Dpos[p], RAdd(Dpos[p], S)))]))

InitSel == AllIdle

\* shape_embedding_loss(img_region_features, rendered_view_features,
\* category_idx, shape_idx, P, N) (a behaviour follows one call)
ShapeEmbeddingLoss(img, views, gt, P, N) ==
    /\ selCall = None
    /\ \E V \in {Len(views) \div Len(img)}, D \in {SimilarityMatrix(img, views)} :
         LET args == [img |-> img, views |-> views, gt |-> gt, V |-> V, P |-> P, N |-> N, D |-> D]
         IN IF P > Len(views) \/ N > Len(views)
            THEN \* topk: k is larger than the row
                 selCall' = args @@ [raised |-> "RuntimeError: topk", Dpos |-> <<>>,
                                     Dneg |-> <<>>, rows |-> <<>>, loss |-> "nan"]
            ELSE \E Dpos \in {AsSeq([i \in DOMAIN img |-> HardestPositives(D, gt, V, P, i)])},
                    Dneg \in {AsSeq([i \in DOMAIN img |-> HardestNegatives(D, gt, V, N, i)])} :
                   \E rows \in {AsSeq([i \in DOMAIN img |-> RowLossClass(Dpos[i], Dneg[i])])} :
                      selCall' = args @@ [raised |-> "", Dpos |-> Dpos, Dneg |-> Dneg,
                                          rows |-> rows,
                                          \* line 151: the mean over the rows
                                          loss |-> ClassSum(rows)]
    /\ UNCHANGED exceptSel

NextSel ==
    selCall = None /\
    \E n \in 1 .. MaxDets, V \in 1 .. MaxViews :
        \E img \in [1 .. n -> Embeddings], views \in [1 .. n * V -> Embeddings],
           gt \in [1 .. n -> ShapeCats], P \in 1 .. MaxP, N \in 1 .. MaxN :
            ShapeEmbeddingLoss(img, views, gt, P, N)

SpecSel == InitSel /\ [][NextSel]_vars

\* the number of views of detection i's shape, of its category
NumSameShape(i) ==
    Cardinality({j \in DOMAIN selCall.views : SameShape(selCall.gt, selCall.V, i, j)})
NumSameCategory(i) ==
    Cardinality({j \in DOMAIN selCall.views : SameCategory(selCall.gt, selCall.V, i, j)})

\* C8: a detection with fewer than P same-shape views or fewer than N
\* same-category views gets a defined, finite contribution: the call does
\* not fail, no +inf or -inf placeholder is among its Dpos and Dneg, and
\* where every similarity of the batch is positive its loss and the batch
\* loss are finite.
C8_ShortMiningSetIsFinite ==
    selCall # None =>
        \A i \in DOMAIN selCall.img :
            (NumSameShape(i) < selCall.P \/ NumSameCategory(i) < selCall.N) =>
                /\ selCall.raised = ""
                /\ RPosInf \notin Range(selCall.Dpos[i])
                /\ RNegInf \notin Range(selCall.Dneg[i])
                /\ (\A r \in DOMAIN selCall.D : \A j \in DOMAIN selCall.D[r] : selCall.D[r][j][1] > 0)
                      => /\ selCall.rows[i] \in {"zero", "finite"}
                         /\ selCall.loss \in {"zero", "finite"}

(***************************************************************************)
(* shape_embedding_loss on batches whose embeddings are the two unit       *)
(* vectors, so that every similarity is 1 or 0 (D is 1 / tau or 0).        *)
(***************************************************************************)
MineDets == 2               \* B*Q lies in 1 .. MineDets
MineCols == 2               \* the batch has B*Q*V <= MineCols rendered views

MineEmbeddings == {<<1, 0>>, <<0, 1>>}

InitMine == AllIdle

NextMine ==
    selCall = None /\
    \E n \in 1 .. MineDets, V \in 1 .. MineCols :
        n * V <= MineCols /\
        \E img \in [1 .. n -> MineEmbeddings], views \in [1 .. n * V -> MineEmbeddings],
           gt \in [1 .. n -> ShapeCats], P \in 1 .. MaxP, N \in 1 .. MaxN :
            ShapeEmbeddingLoss(img, views, gt, P, N)

SpecMine == InitMine /\ [][NextMine]_vars

\* D of a pair of similarity 1.0
DOne == RDiv(RInt(1), RNorm(TauNum, TauDen))

\* the columns of row i that are of detection i's shape, of its category
SameShapeCols(i) == {j \in DOMAIN selCall.views : SameShape(selCall.gt, selCall.V, i, j)}
SameCategoryCols(i) == {j \in DOMAIN selCall.views : SameCategory(selCall.gt, selCall.V, i, j)}

\* every detection has exactly one same-shape view, of similarity 1.0, and
\* every other same-category view has similarity 0.0
OnePerfectPositive ==
    /\ selCall # None
    /\ selCall.raised = ""
    /\ \A i \in DOMAIN selCall.img :
          /\ Cardinality(SameShapeCols(i)) = 1
          /\ \A j \in SameShapeCols(i) : selCall.D[i][j] = DOne
          /\ \A j \in SameCategoryCols(i) \ SameShapeCols(i) : selCall.D[i][j] = RInt(0)

ValuesOfCols(vals, i, J) ==
    \A v \in Range(vals) \cup {selCall.D[i][j] : j \in J} :
        Cardinality({k \in DOMAIN vals : vals[k] = v})
            = Cardinality({j \in J : selCall.D[i][j] = v})

\* C16: in a call that returns, the hardest positives of every detection i
\* are the values of P columns with sameShape[i, j] true, and no other
\* same-shape column of row i has a smaller similarity.
C16_PositivesAreSameShapeSmallest ==
    (selCall # None /\ selCall.raised = "") =>
        \A i \in DOMAIN selCall.img :
            \E J \in SUBSET SameShapeCols(i) :
                /\ Cardinality(J) = selCall.P
                /\ ValuesOfCols(selCall.Dpos[i], i, J)
                /\ \A j \in J, k \in SameShapeCols(i) \ J :
                      RLeq(selCall.D[i][j], selCall.D[i][k])

\* C17: in a call that returns, the hardest negatives of every detection i
\* are the values of N columns with sameCategory[i, j] true, no other
\* same-category column of row i has a larger similarity, and so no column
\* of another category has a part in Dpos or Dneg.
C17_NegativesAreSameCategoryLargest ==
    (selCall # None /\ selCall.raised = "") =>
        \A i \in DOMAIN selCall.img :
            \E J \in SUBSET SameCategoryCols(i) :
                /\ Cardinality(J) = selCall.N
                /\ ValuesOfCols(selCall.Dneg[i], i, J)
                /\ \A j \in J, k \in SameCategoryCols(i) \ J :
                      RLeq(selCall.D[i][k], selCall.D[i][j])

(***************************************************************************)
(* train_one_epoch (train_detection.py, lines 41-82): one process, one     *)
(* epoch.  The total loss of an iteration is kept as its class.            *)
(***************************************************************************)
MaxBatches == 3             \* len(data_loader) lies in 0 .. MaxBatches

LossClasses == {"finite", "nan", "inf", "-inf"}

\* torch.isfinite
IsFinite(c) == c = "finite"

\* lines 42-52: lr_scheduler is a warmup scheduler in epoch 0, else None
InitTr ==
    /\ IdleRot /\ IdleCtr /\ IdleEv /\ IdleLoss /\ IdleSel /\ IdleRetr
    /\ IdleCache /\ IdleGather /\ IdleSmp /\ IdleBox /\ IdleFlip
    /\ trPc = "loop"
    /\ trBatches \in 0 .. MaxBatches
    /\ trIter = 0
    /\ lr_scheduler \in {"warmup", "None"}
    /\ losses_reduced = "unset"
    /\ zero_grads = 0
    /\ backwards = 0
    /\ optimizer_steps = 0
    /\ scheduler_steps = 0
    /\ exit_status = -1

trCounters == <<zero_grads, backwards, optimizer_steps, scheduler_steps>>

\* line 54: the next batch of data_loader
LoopNextBatch ==
    /\ trPc = "loop"
    /\ trIter < trBatches
    /\ trIter' = trIter + 1
    /\ trPc' = "forward"
    /\ UNCHANGED <<trBatches, lr_scheduler, losses_reduced, trCounters, exit_status, exceptTr>>

\* line 82: data_loader is exhausted
LoopReturn ==
    /\ trPc = "loop"
    /\ trIter = trBatches
    /\ trPc' = "returned"
    /\ UNCHANGED <<trBatches, trIter, lr_scheduler, losses_reduced, trCounters, exit_status, exceptTr>>

\* lines 55-64: the model's losses, summed and reduced over the processes
LoopForward(c) ==
    /\ trPc = "forward"
    /\ losses_reduced' = c
    /\ trPc' = "check"
    /\ UNCHANGED <<trBatches, trIter, lr_scheduler, trCounters, exit_status, exceptTr>>

\* lines 66-70 without the exit
LoopCheckFiniteNoExit ==
    /\ trPc = "check"
    /\ trPc' = "zero_grad"
    /\ UNCHANGED <<trBatches, trIter, lr_scheduler, losses_reduced, trCounters, exit_status, exceptTr>>

\* lines 66-70: sys.exit(1) when the reduced loss is not finite
LoopCheckFinite ==
    /\ trPc = "check"
    /\ IF IsFinite(losses_reduced)
       THEN /\ trPc' = "zero_grad"
            /\ UNCHANGED exit_status
       ELSE /\ trPc' = "exited"
            /\ exit_status' = 1
    /\ UNCHANGED <<trBatches, trIter, lr_scheduler, losses_reduced, trCounters, exceptTr>>

\* line 72
LoopZeroGrad ==
    /\ trPc = "zero_grad"
    /\ zero_grads' = zero_grads + 1
    /\ trPc' = "backward"
    /\ UNCHANGED <<trBatches, trIter, lr_scheduler, losses_reduced, backwards,
                   optimizer_steps, scheduler_steps, exit_status, exceptTr>>

\* line 73
LoopBackward ==
    /\ trPc = "backward"
    /\ backwards' = backwards + 1
    /\ trPc' = "step"
    /\ UNCHANGED <<trBatches, trIter, lr_scheduler, losses_reduced, zero_grads,
                   optimizer_steps, scheduler_steps, exit_status, exceptTr>>

\* lines 74-77: optimizer.step, then lr_scheduler.step if there is a scheduler
LoopOptimizerStep ==
    /\ trPc = "step"
    /\ optimizer_steps' = optimizer_steps + 1
    /\ scheduler_steps' = IF lr_scheduler # "None" THEN scheduler_steps + 1 ELSE scheduler_steps
    /\ trPc' = "update"
    /\ UNCHANGED <<trBatches, trIter, lr_scheduler, losses_reduced, zero_grads,
                   backwards, exit_status, exceptTr>>

\* lines 79-80: the meters are updated
LoopUpdateMeters ==
    /\ trPc = "update"
    /\ trPc' = "loop"
    /\ UNCHANGED <<trBatches, trIter, lr_scheduler, losses_reduced, trCounters, exit_status, exceptTr>>

NextTr ==
    \/ LoopNextBatch
    \/ LoopReturn
    \/ \E c \in LossClasses : LoopForward(c)
    \/ LoopCheckFinite
    \/ LoopZeroGrad
    \/ LoopBackward
    \/ LoopOptimizerStep
    \/ LoopUpdateMeters

SpecTr == InitTr /\ [][NextTr]_vars

\* C9: from a state in which the reduced loss of the iteration is not
\* finite, the only step is the exit with status 1, and it leaves the
\* counts of zero_grad, backward, optimizer.step and lr_scheduler.step as
\* they are; after the exit there is no step at all.
C9_NoStepAfterNonFiniteLoss ==
    [][ (losses_reduced \in LossClasses \ {"finite"}) =>
            (trPc = "check" /\ trPc' = "exited" /\ exit_status' = 1
                /\ UNCHANGED trCounters) ]_vars

\* the process exited on a non-finite loss after earlier iterations had
\* stepped the optimizer and the scheduler
C9_Witness ==
    /\ trPc = "exited"
    /\ exit_status = 1
    /\ ~IsFinite(losses_reduced)
    /\ optimizer_steps >= 1
    /\ scheduler_steps >= 1
    /\ trIter < trBatches

(***************************************************************************)
(* ShapeRetrieval (models.py, lines 10-31).  A tensor is kept as its shape *)
(* and its flat data; a normalised tensor also keeps the squared norm its  *)
(* data is divided by, so that data[i] / sqrt(normSq) is the element.      *)
(***************************************************************************)
MaxItems == 2               \* items of rendered_views_dataset
MaxCatalogViews == 2        \* rendered views per item
MaxShapeId == 1             \* shape ids are 0 .. MaxShapeId
MaxBatchImages == 2         \* images per call of forward
MaxBoxes == 1               \* detections per image

\* rows the rendered-view encoder produces, and embeddings of detections
CatalogRows == {<<1, 0>>, <<0, 1>>}
QueryRows == {<<9, 1>>, <<1, 1>>}

\* the sequences over S of a length in lo .. hi
SeqsOf(S, lo, hi) == UNION {[1 .. n -> S] : n \in lo .. hi}

RECURSIVE Flatten(_)
Flatten(rows) == IF rows = <<>> THEN <<>> ELSE rows[1] \o Flatten(Tail(rows))

\* torch.cat of one-dimensional tensors: one one-dimensional tensor
cat(rows) == [shape |-> <<Len(Flatten(rows))>>, data |-> Flatten(rows)]

\* F.normalize(t, dim = -1) of a one-dimensional tensor
normalize1d(t) ==
    [shape |-> t.shape, data |-> t.data,
     normSq |-> SumSeq([i \in DOMAIN t.data |-> t.data[i] * t.data[i]])]

\* t.transpose(-2, -1) is defined for tensors of two dimensions or more
TransposeOk(t) == Len(t.shape) >= 2

InitRetr ==
    /\ IdleRot /\ IdleCtr /\ IdleEv /\ IdleLoss /\ IdleSel /\ IdleTr
    /\ IdleCache /\ IdleGather /\ IdleSmp /\ IdleBox /\ IdleFlip
    /\ retrPc = "loop"
    /\ retrViews \in 1 .. MaxCatalogViews
    /\ shape_embedding = <<>>
    /\ shape_indices = <<>>
    /\ ctorRaised = ""
    /\ detections = [images |-> <<>>, raised |-> ""]

\* lines 16-18: one item; the encoder gives one row per view, extend adds
\* every row to shape_embedding and the item's one shape id to shape_indices
CtorAppendItem(shape_idx, encoded) ==
    /\ Len(shape_indices) < MaxItems
    /\ shape_embedding' = shape_embedding \o encoded
    /\ shape_indices' = shape_indices \o <<shape_idx>>
    /\ UNCHANGED <<retrPc, retrViews, ctorRaised, detections, exceptRetr>>

\* lines 19-20: torch.cat of the rows, then self.shape_idx, which no line
\* has assigned
CtorFinish ==
    /\ retrPc = "loop"
    /\ retrPc' = "ctor_ended"
    /\ IF shape_embedding = <<>>
       THEN /\ ctorRaised' = "RuntimeError"
            /\ UNCHANGED shape_embedding
       ELSE /\ shape_embedding' = normalize1d(cat(shape_embedding))
            /\ ctorRaised' = "AttributeError"
    /\ UNCHANGED <<retrViews, shape_indices, detections, exceptRetr>>

\* lines 22-31, on the instance as line 19 left it; dets is the result of
\* self.model: per image, the embeddings of its detections
RetrievalForward(dets) ==
    /\ detections' =
         [images |-> [i \in DOMAIN dets |->
                        [k \in DOMAIN dets[i] |-> [shape_embedding |-> dets[i][k]]]],
          raised |-> IF dets = <<>> THEN "RuntimeError"
                     ELSE IF ~TransposeOk(shape_embedding) THEN "IndexError"
                     ELSE ""]
    /\ retrPc' = "forward_ended"
    /\ UNCHANGED <<retrViews, shape_embedding, shape_indices, ctorRaised, exceptRetr>>

NextRetr ==
    \/ retrPc = "loop" /\ \E shape_idx \in 0 .. MaxShapeId :
          \E encoded \in [1 .. retrViews -> CatalogRows] : CtorAppendItem(shape_idx, encoded)
    \/ CtorFinish
    \/ retrPc = "ctor_ended" /\ ctorRaised = "AttributeError" /\
          \E dets \in SeqsOf(SeqsOf(QueryRows, 0, MaxBoxes), 0, MaxBatchImages) :
              RetrievalForward(dets)

SpecRetr == InitRetr /\ [][NextRetr]_vars

\* C1: when forward has ended it has not raised, and every detection carries
\* a shape_idx that is one of the shape ids stored at build time (what the
\* id of the best catalog entry has to be).
C1_ForwardAttachesShapeId ==
    retrPc = "forward_ended" =>
        /\ detections.raised = ""
        /\ \A i \in DOMAIN detections.images : \A k \in DOMAIN detections.images[i] :
              /\ "shape_idx" \in DOMAIN detections.images[i][k]
              /\ detections.images[i][k].shape_idx \in Range(shape_indices)

(***************************************************************************)
(* CacheInputOutput (models.py, lines 163-175) around the detector's       *)
(* mask_roi_pool and mask_predictor (lines 47-48), and the evaluation      *)
(* forward passes that read them (lines 72-75).  A pass is one call of     *)
(* Mask2CAD.forward on the one instance; passes run in threads, a step is  *)
(* one statement.  A stored value is named by the pass whose call wrote    *)
(* it, 0 for the values of __init__.                                       *)
(***************************************************************************)
NumPasses == 2              \* forward passes on the instance

Passes == 1 .. NumPasses
Wrappers == {"mask_roi_pool", "mask_predictor"}

\* lines 164-169
CacheInit == [args |-> 0, kwargs |-> 0, output |-> 0]

InitCache ==
    /\ IdleRot /\ IdleCtr /\ IdleEv /\ IdleLoss /\ IdleSel /\ IdleTr /\ IdleRetr
    /\ IdleGather /\ IdleSmp /\ IdleBox /\ IdleFlip
    /\ cache = [w \in Wrappers |-> CacheInit]
    /\ passPc = [p \in Passes |-> "start"]
    /\ passRead = [p \in Passes |-> [args |-> -1, output |-> -1]]

\* line 172 of the call of wrapper w by pass p
CacheStoreArgs(p, w, from, to) ==
    /\ passPc[p] = from
    /\ cache' = [cache EXCEPT ![w].args = p]
    /\ passPc' = [passPc EXCEPT ![p] = to]
    /\ UNCHANGED <<passRead, exceptCache>>

\* line 173
CacheStoreKwargs(p, w, from, to) ==
    /\ passPc[p] = from
    /\ cache' = [cache EXCEPT ![w].kwargs = p]
    /\ passPc' = [passPc EXCEPT ![p] = to]
    /\ UNCHANGED <<passRead, exceptCache>>

\* line 174: the wrapped model returns and its output is stored, or it
\* raises and the exception leaves the wrapper, the detector and forward
CacheCallModel(p, w, from, to, raises) ==
    /\ passPc[p] = from
    /\ IF raises
       THEN /\ passPc' = [passPc EXCEPT ![p] = "raised"]
            /\ UNCHANGED cache
       ELSE /\ cache' = [cache EXCEPT ![w].output = p]
            /\ passPc' = [passPc EXCEPT ![p] = to]
    /\ UNCHANGED <<passRead, exceptCache>>

\* line 74: the pass reads mask_roi_pool.args
ReadPoolArgs(p) ==
    /\ passPc[p] = "detected"
    /\ passRead' = [passRead EXCEPT ![p].args = cache["mask_roi_pool"].args]
    /\ passPc' = [passPc EXCEPT ![p] = "line75"]
    /\ UNCHANGED <<cache, exceptCache>>

\* line 75: the pass reads mask_predictor.output
ReadMaskLogits(p) ==
    /\ passPc[p] = "line75"
    /\ passRead' = [passRead EXCEPT ![p].output = cache["mask_predictor"].output]
    /\ passPc' = [passPc EXCEPT ![p] = "line76"]
    /\ UNCHANGED <<cache, exceptCache>>

\* line 72: the detector calls mask_roi_pool, then mask_predictor
NextCache ==
    \E p \in Passes :
        \/ CacheStoreArgs(p, "mask_roi_pool", "start", "pool173")
        \/ CacheStoreKwargs(p, "mask_roi_pool", "pool173", "pool174")
        \/ \E raises \in BOOLEAN :
              CacheCallModel(p, "mask_roi_pool", "pool174", "pred172", raises)
        \/ CacheStoreArgs(p, "mask_predictor", "pred172", "pred173")
        \/ CacheStoreKwargs(p, "mask_predictor", "pred173", "pred174")
        \/ \E raises \in BOOLEAN :
              CacheCallModel(p, "mask_predictor", "pred174", "detected", raises)
        \/ ReadPoolArgs(p)
        \/ ReadMaskLogits(p)

SpecCache == InitCache /\ [][NextCache]_vars

\* C12: what a pass has read from the wrappers at lines 74-75 was written
\* by its own detector invocation.
C12_PassReadsOwnCache ==
    \A p \in DOMAIN passPc :
        /\ passPc[p] \in {"line75", "line76"} => passRead[p].args = p
        /\ passPc[p] = "line76" => passRead[p].output = p

\* no call of wrapper w is between its lines 172 and 174
CacheAtRest(w) ==
    \A p \in DOMAIN passPc :
        passPc[p] \notin (IF w = "mask_roi_pool" THEN {"pool173", "pool174"}
                          ELSE {"pred173", "pred174"})

\* C19: whenever no call of a wrapper is in progress, its args, kwargs and
\* output were stored by one and the same call (a call that raised has
\* left them as they were).
C19_CacheOfOneCall ==
    \A w \in DOMAIN cache :
        CacheAtRest(w) =>
            /\ cache[w].args = cache[w].kwargs
            /\ cache[w].kwargs = cache[w].output

(***************************************************************************)
(* RenderedViewsRandomSampler (datasets.py, lines 25-48).  torch.Generator *)
(* is a deterministic stream fixed by its seed; it is modelled as a linear *)
(* congruential generator of full period 16, so the draws of one row are   *)
(* distinct.  Two sampler objects are built with the same arguments.       *)
(***************************************************************************)
MaxExamples == 2            \* num_examples lies in 1 .. MaxExamples
MaxRenderedViews == 2       \* num_rendered_views lies in 1 .. MaxRenderedViews
MaxSampledViews == 2        \* num_sampled_views lies in 1 .. MaxSampledViews
MaxSampledBoxes == 2        \* num_sampled_boxes lies in 1 .. MaxSampledBoxes
MaxEpoch == 2               \* epoch lies in 0 .. MaxEpoch
MaxCalls == 2               \* set_epoch calls of an object that are counted

RandObjects == {"r1", "r2"}

\* rng.manual_seed(seed): the state of the generator
manual_seed(seed) == seed % 16

\* one draw: the next state of the generator, which is also the value drawn
GeneratorNext(x) == (5 * x + 3) % 16

\* the k-th value drawn from a generator in state x
RECURSIVE Draw(_, _)
Draw(x, k) == IF k = 1 THEN GeneratorNext(x) ELSE Draw(GeneratorNext(x), k - 1)

\* torch.rand(rows, cols, generator = rng): drawn in row-major order
rand(rows, cols, x) ==
    [r \in 1 .. rows |-> [c \in 1 .. cols |-> Draw(x, (r - 1) * cols + c)]]

\* argsort(-1) of one row: the 0-based positions in ascending order of value
RECURSIVE argsort(_, _)
argsort(row, done) ==
    IF Cardinality(done) = Len(row) THEN <<>>
    ELSE LET left == DOMAIN row \ done
             i == CHOOSE i \in left :
                    \A j \in left : row[i] < row[j] \/ (row[i] = row[j] /\ i <= j)
         IN <<i - 1>> \o argsort(row, done \cup {i})

\* t[..., :n]
Take(row, n) == SubSeq(row, 1, IF n < Len(row) THEN n ELSE Len(row))

\* line 38 with every view drawn on its own from 1 .. num_rendered_views
NovelViewIdxWithReplacement(self, x) ==
    LET R == rand(self.num_examples * self.num_sampled_boxes, self.num_rendered_views, x)
        picked == [r \in DOMAIN R |->
                     LET a == Take(R[r], self.num_sampled_views)
                     IN [c \in DOMAIN a |-> 1 + ((a[c] \div 2) % self.num_rendered_views)]]
    IN [e \in 1 .. self.num_examples |->
          Flatten([b \in 1 .. self.num_sampled_boxes |->
                     picked[(e - 1) * self.num_sampled_boxes + b]])]

\* line 38: 1 + rand(...).argsort(-1)[..., :num_sampled_views].reshape(num_examples, -1)
NovelViewIdx(self, x) ==
    LET R == rand(self.num_examples * self.num_sampled_boxes, self.num_rendered_views, x)
        picked == [r \in DOMAIN R |->
                     LET a == Take(argsort(R[r], {}), self.num_sampled_views)
                     IN [c \in DOMAIN a |-> 1 + a[c]]]
    IN [e \in 1 .. self.num_examples |->
          Flatten([b \in 1 .. self.num_sampled_boxes |->
                     picked[(e - 1) * self.num_sampled_boxes + b]])]

\* line 38 for every sampler of the bounds and every state of the generator
NovelViewTable ==
    [a \in (1 .. MaxExamples) \X (1 .. MaxRenderedViews) \X (1 .. MaxSampledViews)
              \X (1 .. MaxSampledBoxes) \X {manual_seed(seed) : seed \in 0 .. MaxEpoch} |->
        AsSeq(NovelViewIdx([num_examples |-> a[1], num_rendered_views |-> a[2],
                            num_sampled_views |-> a[3], num_sampled_boxes |-> a[4]], a[5]))]
      @@ <<>>

\* set_epoch with a generator that goes on from the previous call's views
SetEpochIdxContinued(self, epoch) ==
    LET x == manual_seed(IF self.idx = <<>> THEN epoch ELSE epoch + self.idx[1][2])
        novel == NovelViewIdx(self, x)
    IN [e \in 1 .. self.num_examples |-> <<e - 1>> \o novel[e]]

\* lines 33-42: self.idx after set_epoch(epoch)
SetEpochIdx(self, epoch) ==
    LET x == manual_seed(epoch)
        novel == NovelViewTable[<<self.num_examples, self.num_rendered_views,
                                  self.num_sampled_views, self.num_sampled_boxes, x>>]
    IN [e \in 1 .. self.num_examples |-> <<e - 1>> \o novel[e]]

\* lines 26-31; idx = <<>> is self.idx = None
InitRand ==
    /\ IdleRot /\ IdleCtr /\ IdleEv /\ IdleLoss /\ IdleSel /\ IdleTr /\ IdleRetr
    /\ IdleCache /\ IdleGather /\ IdleBox /\ IdleFlip
    /\ \E E \in 1 .. MaxExamples, V \in 1 .. MaxRenderedViews,
          S \in 1 .. MaxSampledViews, B \in 1 .. MaxSampledBoxes :
         randSampler = [o \in RandObjects |->
                          [num_examples |-> E, num_rendered_views |-> V,
                           num_sampled_views |-> S, num_sampled_boxes |-> B, idx |-> <<>>]]
    /\ randEpoch = [o \in RandObjects |-> [epoch |-> -1, calls |-> 0]]
    /\ seqSampler = None
    /\ uniqSampler = None
    /\ yielded = None

\* set_epoch(epoch) on object o
SetEpoch(o, epoch) ==
    /\ randSampler' = [randSampler EXCEPT ![o].idx = AsSeq(SetEpochIdx(randSampler[o], epoch))]
    /\ randEpoch' = [randEpoch EXCEPT ![o] =
                       [epoch |-> epoch,
                        calls |-> IF @.calls < MaxCalls THEN @.calls + 1 ELSE @.calls]]
    /\ UNCHANGED <<seqSampler, uniqSampler, yielded, exceptSmp>>

\* lines 44-45: iter(self.idx.tolist()); None has no tolist
IterRandom(o) ==
    /\ yielded' = [sampler |-> "RenderedViewsRandomSampler",
                   obj |-> o,
                   per_example |-> TRUE,
                   num_examples |-> randSampler[o].num_examples,
                   num_rendered_views |-> randSampler[o].num_rendered_views,
                   lists |-> randSampler[o].idx,
                   raised |-> IF randSampler[o].idx = <<>> THEN "AttributeError" ELSE ""]
    /\ UNCHANGED <<randSampler, randEpoch, seqSampler, uniqSampler, exceptSmp>>

NextRand ==
    \/ \E o \in RandObjects, epoch \in 0 .. MaxEpoch : SetEpoch(o, epoch)
    \/ \E o \in RandObjects : IterRandom(o)

SpecRand == InitRand /\ [][NextRand]_vars

\* C13: two objects built with the same arguments whose last set_epoch had
\* the same epoch hold the same index lists, whatever calls came before.
C13_SetEpochDeterministic ==
    \A o1, o2 \in DOMAIN randSampler :
        (/\ randEpoch[o1].epoch # -1
         /\ randEpoch[o1].epoch = randEpoch[o2].epoch
         /\ randSampler[o1].num_examples = randSampler[o2].num_examples
         /\ randSampler[o1].num_rendered_views = randSampler[o2].num_rendered_views
         /\ randSampler[o1].num_sampled_views = randSampler[o2].num_sampled_views
         /\ randSampler[o1].num_sampled_boxes = randSampler[o2].num_sampled_boxes)
        => randSampler[o1].idx = randSampler[o2].idx

\* one object is at its first set_epoch, the other had an earlier call, both
\* at the same epoch, and there are views to permute
C13_Witness ==
    /\ randSampler # <<>>
    /\ randEpoch["r1"].calls = 1
    /\ randEpoch["r2"].calls = 2
    /\ randEpoch["r1"].epoch = randEpoch["r2"].epoch
    /\ randEpoch["r1"].epoch > 0
    /\ randSampler["r1"].num_rendered_views >= 2
    /\ randSampler["r1"].num_examples >= 2
    /\ randSampler["r1"].idx # AsSeq(SetEpochIdx(randSampler["r1"], 0))

\* the views of box b (1-based) in a yielded list of the random sampler
BoxGroup(list, b, S) == SubSeq(list, 2 + (b - 1) * S, 1 + b * S)

\* C21: an iteration of the random sampler that returns comes after a
\* set_epoch of that object; with num_sampled_views <= num_rendered_views
\* it yields num_examples lists, the k-th being example k - 1 followed by
\* num_sampled_boxes * num_sampled_views views in 1 .. num_rendered_views,
\* no view twice within the group of a box.
C21_RandomSamplerLists ==
    (yielded # None /\ yielded.sampler = "RenderedViewsRandomSampler") =>
        LET self == randSampler[yielded.obj]
            S == self.num_sampled_views
        IN /\ yielded.raised = "" => randEpoch[yielded.obj].calls >= 1
           /\ (yielded.raised = "" /\ S <= self.num_rendered_views) =>
                /\ Len(yielded.lists) = self.num_examples
                /\ \A k \in DOMAIN yielded.lists :
                      LET list == yielded.lists[k]
                      IN /\ Len(list) = 1 + self.num_sampled_boxes * S
                         /\ list[1] = k - 1
                         /\ \A c \in 2 .. Len(list) : list[c] \in 1 .. self.num_rendered_views
                         /\ \A b \in 1 .. self.num_sampled_boxes :
                               Cardinality(Range(BoxGroup(list, b, S))) = S

\* an iteration after set_epoch with two boxes of two views each per example
C21_Witness ==
    /\ yielded # None
    /\ yielded.sampler = "RenderedViewsRandomSampler"
    /\ yielded.raised = ""
    /\ randSampler[yielded.obj].num_sampled_views = 2
    /\ randSampler[yielded.obj].num_rendered_views = 2
    /\ randSampler[yielded.obj].num_sampled_boxes = 2
    /\ randSampler[yielded.obj].num_examples = 2
    /\ Len(yielded.lists) = 2

(***************************************************************************)
(* RenderedViewsSequentialSampler (datasets.py, lines 13-23),              *)
(* UniqueShapeRenderedViewsSequentialSampler (lines 50-59) and the         *)
(* decoding of an index list by RenderedViews.__getitem__ (lines 68-77).   *)
(* The metadata of the dataset is the sequence of its examples' 'model'.   *)
(***************************************************************************)
MaxModel == 1               \* the 'model' of an example lies in 0 .. MaxModel

\* torch.arange(1, 1 + n)
arange1(n) == [k \in 1 .. n |-> k]

\* line 17: arange(1, 1 + num_rendered_views), one row per example
SequentialIdx(num_examples, num_rendered_views) ==
    [e \in 1 .. num_examples |-> arange1(num_rendered_views)]

\* the models of metadata in the order of their first example
\* line 52 with one entry per example instead of one per model
DictKeysPerExample(metadata, seen) == metadata

RECURSIVE DictKeys(_, _)
DictKeys(metadata, seen) ==
    IF metadata = <<>> THEN <<>>
    ELSE IF Head(metadata) \in seen THEN DictKeys(Tail(metadata), seen)
    ELSE <<Head(metadata)>> \o DictKeys(Tail(metadata), seen \cup {Head(metadata)})

\* line 52: shape2idx[model] is the 0-based index of the last example of model
shape2idx(metadata, model) ==
    (CHOOSE i \in DOMAIN metadata :
        /\ metadata[i] = model
        /\ \A j \in DOMAIN metadata : metadata[j] = model => j <= i) - 1

\* line 53
UniqueShapeIdx(metadata, num_rendered_views) ==
    LET keys == DictKeys(metadata, {})
    IN [k \in DOMAIN keys |-> <<shape2idx(metadata, keys[k])>> \o arange1(num_rendered_views)]

\* lines 69, 75: the example and the views that __getitem__ takes from idx
GetItemDecode(idx) ==
    [example |-> idx[1],
     views |-> LET IsView(k) == k > 0 IN SelectSeq(Tail(idx), IsView)]

InitSmp ==
    /\ IdleRot /\ IdleCtr /\ IdleEv /\ IdleLoss /\ IdleSel /\ IdleTr /\ IdleRetr
    /\ IdleCache /\ IdleGather /\ IdleBox /\ IdleFlip
    /\ randSampler = <<>>
    /\ randEpoch = <<>>
    /\ \E E \in 1 .. MaxExamples, V \in 1 .. MaxRenderedViews :
         seqSampler = [num_examples |-> E, num_rendered_views |-> V,
                       idx |-> AsSeq(SequentialIdx(E, V))]
    /\ \E metadata \in SeqsOf(0 .. MaxModel, 1, MaxExamples), V \in 1 .. MaxRenderedViews :
         uniqSampler = [metadata |-> metadata, num_rendered_views |-> V,
                        idx |-> AsSeq(UniqueShapeIdx(metadata, V))]
    /\ yielded = None

\* lines 19-20
IterSequential ==
    /\ yielded' = [sampler |-> "RenderedViewsSequentialSampler",
                   per_example |-> TRUE,
                   num_examples |-> seqSampler.num_examples,
                   num_rendered_views |-> seqSampler.num_rendered_views,
                   lists |-> seqSampler.idx,
                   raised |-> ""]
    /\ UNCHANGED <<randSampler, randEpoch, seqSampler, uniqSampler, exceptSmp>>

\* lines 55-56
IterUniqueShape ==
    /\ yielded' = [sampler |-> "UniqueShapeRenderedViewsSequentialSampler",
                   per_example |-> FALSE,
                   num_examples |-> Len(uniqSampler.metadata),
                   num_rendered_views |-> uniqSampler.num_rendered_views,
                   lists |-> uniqSampler.idx,
                   raised |-> ""]
    /\ UNCHANGED <<randSampler, randEpoch, seqSampler, uniqSampler, exceptSmp>>

NextSmp ==
    \/ IterSequential
    \/ IterUniqueShape

SpecSmp == InitSmp /\ [][NextSmp]_vars

\* C20: every yielded list decodes to an example index of the dataset (the
\* k-th list of a per-example sampler to example k) and to view indices in
\* 1 .. num_rendered_views, none dropped.
C20_YieldedListLayout ==
    (yielded # None /\ yielded.raised = "") =>
        \A k \in DOMAIN yielded.lists :
            LET d == GetItemDecode(yielded.lists[k])
            IN /\ d.example \in 0 .. yielded.num_examples - 1
               /\ yielded.per_example => d.example = k - 1
               /\ d.views = Tail(yielded.lists[k])
               /\ \A v \in Range(d.views) : v \in 1 .. yielded.num_rendered_views


\* the model of the example that a yielded list names at position 0
ShapeOf(metadata, list) == metadata[list[1] + 1]

\* C24: the unique-shape sampler yields one list per distinct model of the
\* metadata, no model twice and none missing; position 0 of a list is an
\* example of that model, followed by the views 1 .. num_rendered_views in
\* increasing order.
C24_OneListPerShape ==
    (yielded # None /\ yielded.sampler = "UniqueShapeRenderedViewsSequentialSampler") =>
        LET metadata == uniqSampler.metadata
            lists == yielded.lists
        IN /\ yielded.raised = ""
           /\ \A k \in DOMAIN lists :
                 /\ lists[k][1] \in 0 .. Len(metadata) - 1
                 /\ Tail(lists[k]) = [v \in 1 .. uniqSampler.num_rendered_views |-> v]
           /\ \A k, l \in DOMAIN lists :
                 ShapeOf(metadata, lists[k]) = ShapeOf(metadata, lists[l]) => k = l
           /\ \A i \in DOMAIN metadata :
                 \E k \in DOMAIN lists : ShapeOf(metadata, lists[k]) = metadata[i]

\* an iteration over a dataset where two examples share a model
C24_Witness ==
    /\ yielded # None
    /\ yielded.sampler = "UniqueShapeRenderedViewsSequentialSampler"
    /\ Cardinality(Range(uniqSampler.metadata)) < Len(uniqSampler.metadata)
    /\ uniqSampler.num_rendered_views = 2
    /\ Len(yielded.lists) = 1

(***************************************************************************)
(* gather_incomplete (models.py, lines 159-161) on tensors, and the anchor *)
(* lookup object_rotation_quat[category_idx] (line 114).  A tensor is its  *)
(* shape and a function from 0-based index tuples to elements.  The        *)
(* gathered tensor holds at every index that index itself, so an element   *)
(* of a result tells where it was taken from.                              *)
(***************************************************************************)
MaxPositions == 2           \* the index tensor has at most MaxPositions elements
MaxGatherCats == 2          \* the category dimension has size 1 .. MaxGatherCats
MaxTrailing == 2            \* the dimension after the category has size 1 .. MaxTrailing

RECURSIVE Indices(_)
Indices(shape) ==
    IF shape = <<>> THEN {<<>>}
    ELSE {<<i>> \o rest : i \in 0 .. shape[1] - 1, rest \in Indices(Tail(shape))}

\* the tensor of the given shape whose element at idx is idx
CoordTensor(shape) == [shape |-> shape, at |-> [idx \in Indices(shape) |-> idx]]

ndim(t) == Len(t.shape)

\* I[(...,) + (None,) * n]
IndexNone(I, n) ==
    LET shape == I.shape \o [k \in 1 .. n |-> 1]
    IN [shape |-> shape,
        at |-> [idx \in Indices(shape) |-> I.at[SubSeq(idx, 1, ndim(I))]]]

\* t.expand(sizes): -1 keeps a dimension, a dimension of size 1 is repeated
Expand(t, sizes) ==
    LET shape == [d \in DOMAIN sizes |-> IF sizes[d] = -1 THEN t.shape[d] ELSE sizes[d]]
    IN [shape |-> shape,
        at |-> [idx \in Indices(shape) |->
                  t.at[[d \in DOMAIN idx |-> IF t.shape[d] = 1 THEN 0 ELSE idx[d]]]]]

\* torch.gather accepts the index: same number of dimensions, not larger
\* than t off dim, every element in 0 .. t.shape[dim] - 1
GatherOk(t, dim, index) ==
    /\ ndim(index) = ndim(t)
    /\ \A d \in DOMAIN t.shape : d # dim + 1 => index.shape[d] <= t.shape[d]
    /\ \A idx \in DOMAIN index.at : index.at[idx] \in 0 .. t.shape[dim + 1] - 1

\* t.gather(dim, index)
Gather(t, dim, index) ==
    [shape |-> index.shape,
     at |-> [idx \in Indices(index.shape) |-> t.at[[idx EXCEPT ![dim + 1] = index.at[idx]]]]]

\* t.squeeze(dim)
Squeeze(t, dim) ==
    IF t.shape[dim + 1] # 1 THEN t
    ELSE LET shape == RemoveAt(t.shape, dim + 1)
         IN [shape |-> shape,
             at |-> [idx \in Indices(shape) |->
                       t.at[SubSeq(idx, 1, dim) \o <<0>> \o SubSeq(idx, dim + 1, Len(idx))]]]

\* the index that gather_incomplete hands to gather
GatherIndex(tensor, I) ==
    Expand(IndexNone(I, ndim(tensor) - ndim(I)),
           [k \in 1 .. ndim(I) + 1 |-> -1] \o SubSeq(tensor.shape, ndim(I) + 2, ndim(tensor)))

\* gather_incomplete with every detection given the category of the first
gather_incomplete_first(tensor, I) ==
    LET first == [I EXCEPT !.at = [p \in DOMAIN I.at |-> I.at[[d \in DOMAIN p |-> 0]]]]
    IN Squeeze(Gather(tensor, ndim(I), GatherIndex(tensor, first)), ndim(I))

\* lines 159-161
gather_incomplete_nd(tensor, I) ==
    Squeeze(Gather(tensor, ndim(I), GatherIndex(tensor, I)), ndim(I))

\* t[i] for one element i of an index tensor: negative i counts from the end
WrapIndex(i, n) == IF i < 0 THEN i + n ELSE i
IndexOk(i, n) == i \in -n .. n - 1

\* the shapes of an index tensor of one or two dimensions
IndexShapes ==
    {<<T>> : T \in 1 .. MaxPositions}
        \cup {<<B, Q>> : B \in 1 .. MaxPositions, Q \in 1 .. MaxPositions}

\* category ids, one below and one above the range included
CategoryIds(K) == -1 .. K

InitGather ==
    /\ IdleRot /\ IdleCtr /\ IdleEv /\ IdleLoss /\ IdleSel /\ IdleTr /\ IdleRetr
    /\ IdleCache /\ IdleSmp /\ IdleBox /\ IdleFlip
    /\ gatherCall = None

\* line 86 (line 77 for an index of one dimension): gather_incomplete of a
\* branch output of shape I.shape + (K, R) by category_idx I
GatherIncompleteCall(I, K, R) ==
    LET tensor == CoordTensor(I.shape \o <<K, R>>)
        ok == GatherOk(tensor, ndim(I), GatherIndex(tensor, I))
    IN /\ gatherCall' = [op |-> "gather_incomplete", I |-> I, K |-> K, R |-> R,
                         raised |-> IF ok THEN "" ELSE "RuntimeError",
                         out |-> IF ok THEN gather_incomplete_nd(tensor, I) ELSE None]
       /\ UNCHANGED exceptGather

\* line 114, compute_rotation_location_targets called with category_idx I:
\* object_rotation_quat of K categories is indexed by I; out holds, for
\* every position, the category whose anchors were returned
AnchorLookupCall(I, K) ==
    LET ok == \A p \in DOMAIN I.at : IndexOk(I.at[p], K)
    IN /\ gatherCall' = [op |-> "object_rotation_quat[category_idx]", I |-> I, K |-> K, R |-> 0,
                         raised |-> IF ok THEN "" ELSE "IndexError",
                         out |-> IF ok
                                 THEN [shape |-> I.shape,
                                       at |-> [p \in DOMAIN I.at |-> WrapIndex(I.at[p], K)]]
                                 ELSE None]
       /\ UNCHANGED exceptGather

\* the index tensors of category ids for K categories
IndexTensors(K) ==
    UNION {{[shape |-> shape, at |-> at] : at \in [Indices(shape) -> CategoryIds(K)]} :
              shape \in {sh \in IndexShapes : Cardinality(Indices(sh)) <= MaxPositions}}

\* a behaviour follows one call
NextGather ==
    \/ gatherCall = None /\ \E K \in 1 .. MaxGatherCats, R \in 1 .. MaxTrailing :
          \E I \in IndexTensors(K) : GatherIncompleteCall(I, K, R)
    \/ gatherCall = None /\ \E K \in 1 .. MaxGatherCats :
          \E I \in IndexTensors(K) : AnchorLookupCall(I, K)

SpecGather == InitGather /\ [][NextGather]_vars

\* the category ids of the call are all in 0 .. K - 1
IdsInRange == \A p \in DOMAIN gatherCall.I.at : gatherCall.I.at[p] \in 0 .. gatherCall.K - 1

C15_CatalogPairsIdWithEmbedding ==
    retrPc = "ctor_ended" =>
        /\ ctorRaised = ""
        /\ ndim(shape_embedding) = 2
        /\ shape_embedding.shape[1] = Len(shape_indices)

(***************************************************************************)
(* Pix3d (datasets.py): the boxes of a split are stored as corners by      *)
(* __init__ (line 102) and converted back to COCO boxes by as_coco_dataset *)
(* (lines 169-182) and by loadAnns (lines 196-198).  Every annotation is   *)
(* on an image of its own, as in pix3d.json (line 97).                     *)
(***************************************************************************)
MaxAnns == 2
MaxBoxSide == 2

\* COCO boxes [x, y, w, h] with w, h >= 1 inside an image of MaxBoxSide pixels a side
CocoBoxes ==
    {b \in (0 .. MaxBoxSide - 1) \X (0 .. MaxBoxSide - 1) \X (1 .. MaxBoxSide) \X (1 .. MaxBoxSide) :
        b[1] + b[3] <= MaxBoxSide /\ b[2] + b[4] <= MaxBoxSide}

\* split['annotations'] of a split file: the k-th annotation is on image k
Splits ==
    {[k \in DOMAIN boxes |-> [image_id |-> k, bbox |-> boxes[k]]] :
        boxes \in SeqsOf(CocoBoxes, 1, MaxAnns)}

\* line 102: a['bbox'][:2] + [a['bbox'][0] + a['bbox'][2] - 1, a['bbox'][1] + a['bbox'][3] - 1]
StoredBBox(bbox) ==
    SubSeq(bbox, 1, 2) \o <<bbox[1] + bbox[3] - 1, bbox[2] + bbox[4] - 1>>

\* line 106
BBoxAssert(metadata) ==
    \A k \in DOMAIN metadata :
        /\ metadata[k].bbox[1] <= metadata[k].bbox[3]
        /\ metadata[k].bbox[2] <= metadata[k].bbox[4]

\* line 111: the dict from m['img'] to m, a later entry replacing an earlier one
ImageIdx(metadata) ==
    [i \in {metadata[k].img : k \in DOMAIN metadata} |->
        metadata[CHOOSE k \in DOMAIN metadata :
                    /\ metadata[k].img = i
                    /\ \A l \in DOMAIN metadata : metadata[l].img = i => l <= k]]

\* lines 99-111, the fields that the box conversions read
Pix3dInit(split) ==
    LET metadata == [k \in DOMAIN split |->
                       [img |-> split[k].image_id, bbox |-> StoredBBox(split[k].bbox)]]
    IN [split |-> split,
        metadata |-> metadata,
        image_idx |-> ImageIdx(metadata),
        raised |-> IF BBoxAssert(metadata) THEN "" ELSE "AssertionError"]

InitBox ==
    /\ IdleRot /\ IdleCtr /\ IdleEv /\ IdleLoss /\ IdleSel /\ IdleTr /\ IdleRetr
    /\ IdleCache /\ IdleGather /\ IdleSmp /\ IdleFlip
    /\ \E split \in Splits : pix3d = Pix3dInit(split)
    /\ coco_dataset = None
    /\ annsLoaded = None

\* line 176: [m['bbox'][0], m['bbox'][1], m['bbox'][2] - m['bbox'][0], m['bbox'][3] - m['bbox'][1]]
CocoBBox(bbox) ==
    <<bbox[1], bbox[2], bbox[3] - bbox[1], bbox[4] - bbox[2]>>

\* line 198: m['bbox'][:2] + [m['bbox'][2] - m['bbox'][0] + 1, m['bbox'][3] - m['bbox'][1] + 1]
LoadAnnsBBox(bbox) ==
    SubSeq(bbox, 1, 2) \o <<bbox[3] - bbox[1] + 1, bbox[4] - bbox[2] + 1>>

\* lines 169-182: the images and the annotations of the dataset dict (the
\* segmentation is read from the mask file and is left out)
AsCocoDataset ==
    /\ pix3d.raised = ""
    /\ coco_dataset = None
    /\ coco_dataset' =
          [images |-> [k \in DOMAIN pix3d.metadata |-> [id |-> pix3d.metadata[k].img]],
           annotations |->
              [k \in DOMAIN pix3d.metadata |->
                 LET m == pix3d.metadata[k]
                 IN [id |-> 1 + (k - 1),
                     image_id |-> m.img,
                     bbox |-> CocoBBox(m.bbox),
                     iscrowd |-> 0,
                     area |-> (m.bbox[3] - m.bbox[1]) * (m.bbox[4] - m.bbox[2])]]]
    /\ UNCHANGED <<pix3d, annsLoaded, exceptBox>>

\* lines 196-198: breakpoint() stops in the debugger, which either resumes
\* the call or ends it with BdbQuit
LoadAnns(ids, resumed) ==
    /\ pix3d.raised = ""
    /\ annsLoaded = None
    /\ annsLoaded' =
          IF resumed
          THEN [ids |-> ids,
                anns |-> [j \in DOMAIN ids |->
                            LET m == pix3d.image_idx[ids[j]]
                            IN [image_id |-> ids[j], bbox |-> LoadAnnsBBox(m.bbox)]],
                raised |-> ""]
          ELSE [ids |-> ids, anns |-> <<>>, raised |-> "BdbQuit"]
    /\ UNCHANGED <<pix3d, coco_dataset, exceptBox>>

NextBox ==
    \/ AsCocoDataset
    \/ \E i \in DOMAIN pix3d.image_idx, resumed \in BOOLEAN : LoadAnns(<<i>>, resumed)

SpecBox == InitBox /\ [][NextBox]_vars

\* the COCO box that the split file holds for image i
SplitBBox(i) ==
    pix3d.split[CHOOSE k \in DOMAIN pix3d.split : pix3d.split[k].image_id = i].bbox

\* C22: as_coco_dataset and loadAnns both give back the COCO box
\* [x, y, w, h] of the split for every image, and agree with each other.
C22_BoxRoundTrip ==
    /\ coco_dataset # None =>
          \A k \in DOMAIN coco_dataset.annotations :
              coco_dataset.annotations[k].bbox
                  = SplitBBox(coco_dataset.annotations[k].image_id)
    /\ (annsLoaded # None /\ annsLoaded.raised = "") =>
          \A j \in DOMAIN annsLoaded.anns :
              annsLoaded.anns[j].bbox = SplitBBox(annsLoaded.anns[j].image_id)
    /\ (coco_dataset # None /\ annsLoaded # None /\ annsLoaded.raised = "") =>
          \A j \in DOMAIN annsLoaded.anns : \A k \in DOMAIN coco_dataset.annotations :
              coco_dataset.annotations[k].image_id = annsLoaded.anns[j].image_id
                  => coco_dataset.annotations[k].bbox = annsLoaded.anns[j].bbox

(***************************************************************************)
(* RandomHorizontalFlip.forward (transforms.py, lines 22-31).  An image    *)
(* and a mask are one row of pixels, each pixel named by the column it     *)
(* started in; probabilities and draws are counted in halves.              *)
(***************************************************************************)
MaxWidth == 2
MaxBoxCols == 2
MaxForwards == 3

\* self.p, in halves: 0, 0.5 and 1
Probabilities == 0 .. 2

\* torch.rand(1), in halves: a number of [0, 1)
RandDraws == 0 .. 1

\* boxes [x1, y1, x2, y2] with x1 <= x2 and y1 <= y2 in an image of W by W pixels
FlipBoxes(W) ==
    {b \in (0 .. W) \X (0 .. W) \X (0 .. W) \X (0 .. W) : b[1] <= b[3] /\ b[2] <= b[4]}

\* an image of width W as given to the transform
Row(W) == [c \in 1 .. W |-> c]

\* Fv.hflip and Tensor.flip(-1)
Flip(row) == [c \in DOMAIN row |-> row[Len(row) + 1 - c]]

\* Fv.get_image_size: the width
ImageWidth(image) == Len(image)

\* line 27 with the columns 0 and 2 read in place: [:, [0, 2]] = width - [:, [0, 2]]
FlipBoxUnswapped(width, box) ==
    <<width - box[1], box[2], width - box[3], box[4]>>

\* line 27: target["boxes"][:, [0, 2]] = width - target["boxes"][:, [2, 0]]
FlipBox(width, box) ==
    <<width - box[3], box[2], width - box[1], box[4]>>

\* the targets the transform is given: None, or boxes with or without masks
FlipTargets(W) ==
    {None}
      \cup {[boxes |-> boxes, has_masks |-> hm, masks |-> IF hm THEN Row(W) ELSE <<>>] :
              boxes \in {bs \in SeqsOf(FlipBoxes(W), 1, MaxBoxCols) : Len(bs) * W <= MaxBoxCols},
              hm \in BOOLEAN}

InitFlip ==
    /\ IdleRot /\ IdleCtr /\ IdleEv /\ IdleLoss /\ IdleSel /\ IdleTr /\ IdleRetr
    /\ IdleCache /\ IdleGather /\ IdleSmp /\ IdleBox
    /\ \E p \in Probabilities, W \in 1 .. MaxWidth : \E target \in FlipTargets(W) :
         /\ hflip = [p |-> p, image |-> Row(W), target |-> target]
         /\ hflipLog = [image |-> Row(W), target |-> target, flipped |-> <<>>]

\* lines 22-31, applied to the pair the last forward returned
Forward(draw) ==
    /\ Len(hflipLog.flipped) < MaxForwards
    /\ LET flips == draw < hflip.p
           image == IF flips THEN Flip(hflip.image) ELSE hflip.image
           width == ImageWidth(image)
           target ==
              IF flips /\ hflip.target # None
              THEN [hflip.target EXCEPT
                      !.boxes = [k \in DOMAIN @ |-> FlipBox(width, @[k])],
                      !.masks = IF hflip.target.has_masks THEN Flip(@) ELSE @]
              ELSE hflip.target
       IN /\ hflip' = [hflip EXCEPT !.image = image, !.target = target]
          /\ hflipLog' = [hflipLog EXCEPT !.flipped = Append(@, flips)]
    /\ UNCHANGED exceptFlip

NextFlip == \E draw \in RandDraws : Forward(draw)

SpecFlip == InitFlip /\ [][NextFlip]_vars

\* the number of forwards so far that flipped
NumFlips == Cardinality({i \in DOMAIN hflipLog.flipped : hflipLog.flipped[i]})

\* C23: after a forward that flips, every box [x1, y1, x2, y2] of the
\* target is [W - x2, y1, W - x1, y2]: x1 <= x2 still holds and the width
\* of the box and its y coordinates are as before; after a second flip the
\* boxes are the original ones; a forward that does not flip leaves image
\* and target as they are.
C23_FlipMirrorsBoxes ==
    hflipLog # None =>
        LET W == Len(hflipLog.image)
            given == hflipLog.target
        IN IF NumFlips % 2 = 0
           THEN hflip.image = hflipLog.image /\ hflip.target = given
           ELSE /\ hflip.image = Flip(hflipLog.image)
                /\ given = None => hflip.target = None
                /\ given # None =>
                     /\ DOMAIN hflip.target.boxes = DOMAIN given.boxes
                     /\ \A k \in DOMAIN given.boxes :
                           LET b == given.boxes[k]
                               f == hflip.target.boxes[k]
                           IN /\ f = <<W - b[3], b[2], W - b[1], b[4]>>
                              /\ f[1] <= f[3]
                              /\ f[3] - f[1] = b[3] - b[1]
                              /\ f[2] = b[2] /\ f[4] = b[4]

\* a forward that did not flip and then two that did, on a target with
\* masks and a box that is not symmetric in the image
C23_Witness ==
    /\ hflipLog # None
    /\ hflipLog.flipped = <<FALSE, TRUE, TRUE>>
    /\ hflip.target # None
    /\ hflip.target.has_masks
    /\ \E k \in DOMAIN hflip.target.boxes :
          LET b == hflip.target.boxes[k]
          IN b[1] < b[3] /\ b[1] + b[3] # Len(hflip.image)
====
